---- MODULE Spec2Model ----
(***************************************************************************)
(* Model of the workout-plan generation pipeline of workout_ai:            *)
(*   backend/services/generate_workout.py  (orchestrator "services")       *)
(*   backend/api/workouts.py               (orchestrator "api", wired to   *)
(*                                          the /generate endpoint)        *)
(*   backend/core/cache.py, openai_client.py, response_parser.py,          *)
(*   summary_genertor.py, backend/models/workouts.py                       *)
(*                                                                         *)
(* A payload is the text the generator returns.  It is modelled by the     *)
(* JSON document the text denotes:                                         *)
(*   form   "empty"   the empty string                                     *)
(*          "garbage" text that json.loads rejects                         *)
(*          "object"  a JSON object                                        *)
(*          "scalar"  a JSON document that is not an object                *)
(*   fenced the text is wrapped in a markdown code fence                   *)
(*   obj    the object: its keys ("name", "weeks") and their values        *)
(* A scalar JSON value is modelled by its token (a string); the number     *)
(* tokens are the members of NumTokens, null is JNull.                     *)
(***************************************************************************)
EXTENDS Integers, Sequences, FiniteSets, TLC

\* ------------------------------------------------------------------ bounds
\* Longest program a request may ask for (WorkoutRequest.duration).
MaxDuration == 2
\* The clock is not advanced past this by waiting callers (sleeping does).
MaxTime == 50
\* The clock advances in steps of this many seconds.
Quantum == 10
\* Builds started in one behaviour.
MaxBuilds == 2

\* ------------------------------------------------------- program constants
MIN_TIME_BETWEEN_REQUESTS == 20

\* ------------------------------------------------------------ JSON values
JNull == "null"
NumTokens == {"3", "5"}

\* models/workouts.py: the session_classes table of SessionDetails.from_dict
session_classes == {"WOD", "Strength", "Rest Day", "Active Recovery"}

\* Field defaults of the pydantic models (None is written JNull).
RestDayDefaultText == "Take the day off to recover."
DefaultActivities == <<"Mobility work", "Light cardio", "Foam rolling">>

Has(d, f) == f \in DOMAIN d

\* A required str field: present and a string (None and numbers are rejected).
ReqStr(d, f) == Has(d, f) /\ d[f] # JNull /\ d[f] \notin NumTokens
\* An Optional[str] field given a value: a string or None.
OptStr(d, f) == Has(d, f) => d[f] \notin NumTokens
\* An Optional[int] field given a value: an integer or None.
OptInt(d, f) == Has(d, f) => (d[f] \in NumTokens \/ d[f] = JNull)
\* The value of an optional field: the payload's, or the declared default.
Get(d, f, default) == IF Has(d, f) THEN d[f] ELSE default

\* models/workouts.py Movement
MovementValid(m) == ReqStr(m, "description") /\ OptStr(m, "resources")
Movement(m) ==
  [description |-> m["description"], resources |-> Get(m, "resources", JNull)]

\* models/workouts.py WOD: all four fields are required
WODValid(d) ==
  /\ ReqStr(d, "description")
  /\ ReqStr(d, "intended_stimulus")
  /\ ReqStr(d, "scaling_options")
  /\ Has(d, "movements")
  /\ \A i \in 1..Len(d["movements"]) : MovementValid(d["movements"][i])
WOD(d) ==
  [description |-> d["description"],
   intended_stimulus |-> d["intended_stimulus"],
   scaling_options |-> d["scaling_options"],
   movements |-> [i \in 1..Len(d["movements"]) |-> Movement(d["movements"][i])]]

\* models/workouts.py Strength: description required, sets and reps Optional[int]
StrengthValid(d) ==
  /\ ReqStr(d, "description")
  /\ OptInt(d, "sets")
  /\ OptInt(d, "reps")
  /\ OptStr(d, "intensity")
  /\ OptStr(d, "rest")
  /\ OptStr(d, "notes")
Strength(d) ==
  [description |-> d["description"],
   sets |-> Get(d, "sets", JNull),
   reps |-> Get(d, "reps", JNull),
   intensity |-> Get(d, "intensity", JNull),
   rest |-> Get(d, "rest", JNull),
   notes |-> Get(d, "notes", JNull)]

\* models/workouts.py RestDay: every field has a default
RestDayValid(d) ==
  /\ Has(d, "type") => (d["type"] # JNull /\ d["type"] \notin NumTokens)
  /\ OptStr(d, "description")
  /\ OptStr(d, "notes")
\* A mutant of RestDay: notes is declared Optional[str] = None.
RestDay_notes_none(d) ==
  [type |-> Get(d, "type", "Rest Day"),
   description |-> Get(d, "description", RestDayDefaultText),
   notes |-> Get(d, "notes", JNull)]

RestDay(d) ==
  [type |-> Get(d, "type", "Rest Day"),
   description |-> Get(d, "description", RestDayDefaultText),
   notes |-> Get(d, "notes", RestDayDefaultText)]

\* models/workouts.py ActiveRecoveryDay: every field has a default
ActiveRecoveryDayValid(d) ==
  /\ Has(d, "type") => (d["type"] # JNull /\ d["type"] \notin NumTokens)
  /\ OptStr(d, "description")
  /\ OptStr(d, "duration")
  /\ OptStr(d, "intensity")
ActiveRecoveryDay(d) ==
  [type |-> Get(d, "type", "Active Recovery"),
   description |-> Get(d, "description", JNull),
   activities |-> Get(d, "activities", DefaultActivities),
   duration |-> Get(d, "duration", "30-60 minutes"),
   intensity |-> Get(d, "intensity", "Low")]

\* SessionDetails.from_dict: the class named by the type builds the details;
\* an unknown type, or a details object the class rejects, is a ValueError.
SessionDetailsValid(type, d) ==
  /\ type \in session_classes
  /\ CASE type = "WOD" -> WODValid(d)
    [] type = "Strength" -> StrengthValid(d)
    [] type = "Rest Day" -> RestDayValid(d)
    [] type = "Active Recovery" -> ActiveRecoveryDayValid(d)
    [] OTHER -> FALSE
SessionDetails_from_dict(type, d) ==
  CASE type = "WOD" -> WOD(d)
    [] type = "Strength" -> Strength(d)
    [] type = "Rest Day" -> RestDay(d)
    [] OTHER -> ActiveRecoveryDay(d)

\* Session.from_dict: session_data["type"] and session_data["details"] are
\* read with [] (KeyError when absent), then the factory is applied.
SessionValid(s) ==
  /\ Has(s, "type")
  /\ Has(s, "details")
  /\ SessionDetailsValid(s["type"], s["details"])
Session_from_dict(s) ==
  [type |-> s["type"], cls |-> s["type"],
   details |-> SessionDetails_from_dict(s["type"], s["details"])]

\* ------------------------------------------------------- document walking
\* dict.get(key, []) on the payload's objects
Weeks(obj) == Get(obj, "weeks", <<>>)
Days(w) == Get(w, "days", <<>>)
Sessions(d) == Get(d, "sessions", <<>>)

RECURSIVE Flatten(_)
Flatten(seqs) == IF seqs = <<>> THEN <<>> ELSE Head(seqs) \o Flatten(Tail(seqs))

\* Every session object of the document, in document order.
AllSessions(obj) ==
  Flatten([i \in 1..Len(Weeks(obj)) |->
    Flatten([j \in 1..Len(Days(Weeks(obj)[i])) |->
      Sessions(Days(Weeks(obj)[i])[j])])])

\* The first exception raised while the sessions are built in order.
RECURSIVE FirstError(_)
FirstError(outcomes) ==
  IF outcomes = <<>> THEN "none"
  ELSE IF Head(outcomes) \in {"ok", "skip"} THEN FirstError(Tail(outcomes))
  ELSE Head(outcomes)

NoPlan == [name |-> <<>>, weeks |-> <<>>]

\* json.loads(raw_json): only an unfenced JSON document loads.
JsonLoads(p) == p.form \in {"object", "scalar"} /\ ~p.fenced

\* ------------------------------------- core/response_parser.py (services)
\* A mutant of CoreOutcome: every session object is accepted.
CoreOutcome_lenient(s) == "ok"

\* A mutant of CoreOutcome: the exception of a rejected session leaves the
\* parser as it was raised, not as the parser's ValueError.
CoreOutcome_unwrapped(s) == IF SessionValid(s) THEN "ok" ELSE "KeyError"

CoreOutcome(s) == IF SessionValid(s) THEN "ok" ELSE "ValueError"

\* A mutant of CoreWeeks: the sessions of a day are collected in reverse.
CoreWeeks_reversed(obj) ==
  [i \in 1..Len(Weeks(obj)) |->
    [days |-> [j \in 1..Len(Days(Weeks(obj)[i])) |->
      [sessions |-> [k \in 1..Len(Sessions(Days(Weeks(obj)[i])[j])) |->
        Session_from_dict(Sessions(Days(Weeks(obj)[i])[j])[
          Len(Sessions(Days(Weeks(obj)[i])[j])) + 1 - k])]]]]]

CoreWeeks(obj) ==
  [i \in 1..Len(Weeks(obj)) |->
    [days |-> [j \in 1..Len(Days(Weeks(obj)[i])) |->
      [sessions |-> [k \in 1..Len(Sessions(Days(Weeks(obj)[i])[j])) |->
        Session_from_dict(Sessions(Days(Weeks(obj)[i])[j])[k])]]]]]

\* A mutant of parse_openai_response_core: the name is read with
\* response_data.get("name"), so a payload without a name is accepted.
parse_openai_response_core_get_name(p) ==
  IF ~JsonLoads(p) THEN [err |-> "ValueError", plan |-> NoPlan]
  ELSE IF p.form = "scalar" THEN [err |-> "AttributeError", plan |-> NoPlan]
  ELSE LET obj == p.obj
           outcomes == [i \in 1..Len(AllSessions(obj)) |-> CoreOutcome(AllSessions(obj)[i])]
       IN IF FirstError(outcomes) # "none"
            THEN [err |-> FirstError(outcomes), plan |-> NoPlan]
          ELSE [err |-> "none",
                plan |-> [name |-> Get(obj, "name", JNull), weeks |-> CoreWeeks(obj)]]

\* parse_openai_response of core/response_parser.py.  err is the exception
\* that leaves the function ("none": it returns plan).
parse_openai_response_core(p) ==
  IF ~JsonLoads(p) THEN [err |-> "ValueError", plan |-> NoPlan]
  ELSE IF p.form = "scalar" THEN [err |-> "AttributeError", plan |-> NoPlan]
  ELSE LET obj == p.obj
           outcomes == [i \in 1..Len(AllSessions(obj)) |-> CoreOutcome(AllSessions(obj)[i])]
       IN IF FirstError(outcomes) # "none"
            THEN [err |-> FirstError(outcomes), plan |-> NoPlan]
          ELSE IF ~Has(obj, "name") THEN [err |-> "ValueError", plan |-> NoPlan]
          ELSE [err |-> "none", plan |-> [name |-> obj["name"], weeks |-> CoreWeeks(obj)]]

\* ------------------------------------------- api/workouts.py (the parser)
\* The keyword arguments the api parser passes to each class: details.get(f)
\* is None for an absent key, movements and activities default to [].
ApiWODArgs(d) ==
  [description |-> Get(d, "description", JNull),
   intended_stimulus |-> Get(d, "intended_stimulus", JNull),
   scaling_options |-> Get(d, "scaling_options", JNull),
   movements |-> [i \in 1..Len(Get(d, "movements", <<>>)) |->
      [description |-> Get(d["movements"][i], "description", JNull),
       resources |-> Get(d["movements"][i], "resources", JNull)]]]
ApiStrengthArgs(d) ==
  [description |-> Get(d, "description", JNull),
   sets |-> Get(d, "sets", JNull),
   reps |-> Get(d, "reps", JNull),
   intensity |-> Get(d, "intensity", JNull),
   rest |-> Get(d, "rest", JNull),
   notes |-> Get(d, "notes", JNull)]
ApiRestDayArgs(d) == [notes |-> Get(d, "notes", RestDayDefaultText)]
ApiActiveRecoveryArgs(d) ==
  [activities |-> Get(d, "activities", <<>>),
   duration |-> Get(d, "duration", "30-60 minutes"),
   intensity |-> Get(d, "intensity", "Low")]

\* The branch of the if/elif chain a session object takes, and how it ends.
ApiOutcome(s) ==
  LET type == Get(s, "type", JNull) IN
  CASE type = "WOD" ->
         IF ~Has(s, "details") THEN "AttributeError"
         ELSE IF WODValid(ApiWODArgs(s["details"])) THEN "ok" ELSE "ValueError"
    [] type = "Strength" ->
         IF ~Has(s, "details") THEN "AttributeError"
         ELSE IF StrengthValid(ApiStrengthArgs(s["details"])) THEN "ok" ELSE "ValueError"
    [] type = "RestDay" ->
         IF ~Has(s, "details") THEN "ValueError"
         ELSE IF RestDayValid(ApiRestDayArgs(s["details"])) THEN "ok" ELSE "ValueError"
    [] type = "Active Recovery" ->
         IF ~Has(s, "details") THEN "AttributeError"
         ELSE IF ActiveRecoveryDayValid(ApiActiveRecoveryArgs(s["details"]))
                THEN "ok" ELSE "ValueError"
    [] OTHER -> "skip"

ApiSession(s) ==
  LET type == s["type"] IN
  CASE type = "WOD" -> [type |-> "WOD", cls |-> "WOD", details |-> WOD(ApiWODArgs(s["details"]))]
    [] type = "Strength" ->
         [type |-> "Strength", cls |-> "Strength",
          details |-> Strength(ApiStrengthArgs(s["details"]))]
    [] type = "RestDay" ->
         [type |-> "Rest Day", cls |-> "Rest Day",
          details |-> RestDay(ApiRestDayArgs(s["details"]))]
    [] OTHER ->
         [type |-> "Active Recovery", cls |-> "Active Recovery",
          details |-> ActiveRecoveryDay(ApiActiveRecoveryArgs(s["details"]))]

RECURSIVE ApiSessions(_)
ApiSessions(ss) ==
  IF ss = <<>> THEN <<>>
  ELSE IF ApiOutcome(Head(ss)) = "ok" THEN <<ApiSession(Head(ss))>> \o ApiSessions(Tail(ss))
  ELSE ApiSessions(Tail(ss))

ApiWeeks(obj) ==
  [i \in 1..Len(Weeks(obj)) |->
    [days |-> [j \in 1..Len(Days(Weeks(obj)[i])) |->
      [sessions |-> ApiSessions(Sessions(Days(Weeks(obj)[i])[j]))]]]]

\* parse_openai_response of api/workouts.py
parse_openai_response_api(p) ==
  IF ~JsonLoads(p) THEN [err |-> "ValueError", plan |-> NoPlan]
  ELSE IF p.form = "scalar" THEN [err |-> "AttributeError", plan |-> NoPlan]
  ELSE LET obj == p.obj
           outcomes == [i \in 1..Len(AllSessions(obj)) |-> ApiOutcome(AllSessions(obj)[i])]
       IN IF FirstError(outcomes) # "none"
            THEN [err |-> FirstError(outcomes), plan |-> NoPlan]
          ELSE IF ~Has(obj, "name") THEN [err |-> "ValueError", plan |-> NoPlan]
          ELSE [err |-> "none", plan |-> [name |-> obj["name"], weeks |-> ApiWeeks(obj)]]

\* build_prompt of api/workouts.py: the session type strings of the schema
\* the prompt tells the generator to follow.
SchemaTypes == {"WOD", "Strength", "Rest Day", "Active Recovery"}

\* The parser each orchestrator imports.
parse_openai_response(variant, p) ==
  IF variant = "services" THEN parse_openai_response_core(p)
  ELSE parse_openai_response_api(p)

\* A mutant of first_week: .weeks[-1], the last week of the payload.
first_week_last(variant, p) ==
  LET r == parse_openai_response(variant, p) IN
  IF r.err # "none" THEN [err |-> r.err, week |-> [days |-> <<>>]]
  ELSE IF Len(r.plan.weeks) = 0 THEN [err |-> "IndexError", week |-> [days |-> <<>>]]
  ELSE [err |-> "none", week |-> r.plan.weeks[Len(r.plan.weeks)]]

\* parse_openai_response(text).weeks[0]: the Week an orchestrator takes from
\* a payload, or the exception (IndexError when the plan has no week).
NoWeek == [days |-> <<>>]
first_week(variant, p) ==
  LET r == parse_openai_response(variant, p) IN
  IF r.err # "none" THEN [err |-> r.err, week |-> NoWeek]
  ELSE IF Len(r.plan.weeks) = 0 THEN [err |-> "IndexError", week |-> NoWeek]
  ELSE [err |-> "none", week |-> r.plan.weeks[1]]

\* ----------------------------------------------------------- summaries
\* A summary is the sequence of its day segments; a segment is its label and
\* the fragments appended to it.  A fragment is the list of the values the
\* f-string interpolates, after the session kind.
Fragment(kind, text, list) == [kind |-> kind, text |-> text, list |-> list]

\* A mutant of CoreFragments: a Rest Day session adds nothing to its day.
CoreFragments_no_rest(s) ==
  CASE s.type = "WOD" ->
         <<Fragment("WOD", <<s.details.description, s.details.intended_stimulus>>, <<>>)>>
    [] s.type = "Strength" ->
         <<Fragment("Strength", <<s.details.description, s.details.sets, s.details.reps,
                                  s.details.intensity, s.details.notes>>, <<>>)>>
    [] s.type = "Active Recovery" ->
         <<Fragment("Active Recovery", <<s.details.duration>>, s.details.activities)>>
    [] OTHER -> <<>>

CoreFragments(s) ==
  CASE s.type = "WOD" ->
         <<Fragment("WOD", <<s.details.description, s.details.intended_stimulus>>, <<>>)>>
    [] s.type = "Strength" ->
         <<Fragment("Strength", <<s.details.description, s.details.sets, s.details.reps,
                                  s.details.intensity, s.details.notes>>, <<>>)>>
    [] s.type = "Rest Day" -> <<Fragment("Rest Day", <<"Recovery & Rest.">>, <<>>)>>
    [] s.type = "Active Recovery" ->
         <<Fragment("Active Recovery", <<s.details.duration>>, s.details.activities)>>
    [] OTHER -> <<>>

ApiFragments(s) ==
  CASE s.type = "WOD" ->
         <<Fragment("WOD", <<s.details.description, s.details.intended_stimulus>>, <<>>)>>
    [] s.type = "Strength" ->
         <<Fragment("Strength", <<s.details.description, s.details.sets, s.details.reps,
                                  s.details.intensity, s.details.notes>>, <<>>)>>
    [] s.type = "Rest Day" -> <<Fragment("Rest Day", <<s.details.description>>, <<>>)>>
    [] s.type = "Active Recovery" ->
         <<Fragment("Active Recovery", <<s.details.description, s.details.duration>>, <<>>)>>
    [] OTHER -> <<>>

\* summarize_week_for_next_prompt (core/summary_genertor.py and api/workouts.py)
summarize_week_for_next_prompt(variant, week) ==
  [i \in 1..Len(week.days) |->
    [label |-> i,
     fragments |-> Flatten([k \in 1..Len(week.days[i].sessions) |->
        IF variant = "services" THEN CoreFragments(week.days[i].sessions[k])
        ELSE ApiFragments(week.days[i].sessions[k])])]]

\* ------------------------------------------------- representative inputs
Text(form, fenced, obj) == [form |-> form, fenced |-> fenced, obj |-> obj]
NoObj == [name |-> JNull]

SessWOD ==
  [type |-> "WOD",
   details |-> [description |-> "Grace", intended_stimulus |-> "Fast",
                scaling_options |-> "Reduce weight",
                movements |-> <<[description |-> "Clean and Jerks", resources |-> "link"]>>]]
SessStrength ==
  [type |-> "Strength",
   details |-> [description |-> "Back squat", sets |-> "5", reps |-> "3",
                intensity |-> "85%", notes |-> "Brace"]]
SessRest == [type |-> "Rest Day", details |-> [description |-> "Off"]]
SessRecovery == [type |-> "Active Recovery", details |-> [duration |-> "20 minutes"]]

WeekA == [days |-> <<[sessions |-> <<SessWOD, SessStrength>>]>>]
WeekB == [days |-> <<[sessions |-> <<SessRest>>], [sessions |-> <<SessRecovery, SessWOD>>]>>]

DocEmpty == Text("empty", FALSE, NoObj)
DocGarbage == Text("garbage", FALSE, NoObj)
DocNoWeeks == Text("object", FALSE, [name |-> "Plan", weeks |-> <<>>])
DocOneA == Text("object", FALSE, [name |-> "Plan", weeks |-> <<WeekA>>])
DocTwo == Text("object", FALSE, [name |-> "Plan", weeks |-> <<WeekB, WeekA>>])

\* Further payloads for the parsers: a session of a type no parser knows, and
\* the payload oneA wrapped in a markdown code fence.
SessUnknown == [type |-> "Unknown", details |-> [description |-> "Something else"]]
DocUnknown ==
  Text("object", FALSE,
       [name |-> "Plan", weeks |-> <<[days |-> <<[sessions |-> <<SessWOD, SessUnknown>>]>>]>>])
DocFenced == Text("object", TRUE, DocOneA.obj)
PUnknown == "unknown"
PFenced == "fenced oneA"

\* The payload of tests/test_workouts.py: one week of two days, a WOD and a
\* Strength session whose reps is the string "1+2", then a WOD.
SessStrengthReps ==
  [type |-> "Strength",
   details |-> [description |-> "Snatch Complex", sets |-> "5", reps |-> "1+2",
                intensity |-> "85% of 1RM Snatch", rest |-> "2 minutes between sets",
                notes |-> "Focus on speed and stability"]]
SessWODMurph ==
  [type |-> "WOD",
   details |-> [description |-> "Murph", intended_stimulus |-> "Endurance",
                scaling_options |-> "Partition the reps",
                movements |-> <<[description |-> "1-mile Run", resources |-> "link"]>>]]
DocTest ==
  Text("object", FALSE,
       [name |-> "Plan",
        weeks |-> <<[days |-> <<[sessions |-> <<SessWOD, SessStrengthReps>>],
                                [sessions |-> <<SessWODMurph>>]>>]>>])
PTest == "test"

\* Payloads with a session object that lacks a key: the deficient session
\* follows a valid one in a one-day week.
Without(d, f) == [g \in DOMAIN d \ {f} |-> d[g]]
OneDay(sessions) ==
  Text("object", FALSE, [name |-> "Plan", weeks |-> <<[days |-> <<[sessions |-> sessions]>>]>>])
WODRequired == {"description", "intended_stimulus", "scaling_options", "movements"}
DocNoType == OneDay(<<SessWOD, Without(SessWOD, "type")>>)
DocNoDetails == OneDay(<<SessWOD, Without(SessWOD, "details")>>)
DocWODLacks(f) == OneDay(<<SessWOD, [SessWODMurph EXCEPT !.details = Without(@, f)]>>)
DocStrengthLacks == OneDay(<<SessWOD, [SessStrength EXCEPT !.details = Without(@, "description")]>>)
PNoType == "no type"
PNoDetails == "no details"
PWODLacks ==
  [f \in WODRequired |->
    CASE f = "description" -> "wod lacks description"
      [] f = "intended_stimulus" -> "wod lacks intended_stimulus"
      [] f = "scaling_options" -> "wod lacks scaling_options"
      [] OTHER -> "wod lacks movements"]
PStrengthLacks == "strength lacks description"

\* Payloads that lack a top-level key: valid weeks without a name, a name
\* without weeks.
DocNoName == Text("object", FALSE, Without(DocOneA.obj, "name"))
DocMissingWeeks == Text("object", FALSE, Without(DocOneA.obj, "weeks"))
PNoName == "no name"
PMissingWeeks == "missing weeks"

\* The state holds a text by its name; Doc is the document the text denotes.
\* "" is the empty string and None is Python's None (no text).
PEmpty == ""
PGarbage == "garbage"
PNoWeeks == "noweeks"
POneA == "oneA"
PTwo == "two"
None == "None"
Doc(text) ==
  CASE text = PGarbage -> DocGarbage
    [] text = PUnknown -> DocUnknown
    [] text = PFenced -> DocFenced
    [] text = PTest -> DocTest
    [] text = PNoType -> DocNoType
    [] text = PNoDetails -> DocNoDetails
    [] \E f \in WODRequired : text = PWODLacks[f] ->
         DocWODLacks(CHOOSE f \in WODRequired : text = PWODLacks[f])
    [] text = PStrengthLacks -> DocStrengthLacks
    [] text = PNoName -> DocNoName
    [] text = PMissingWeeks -> DocMissingWeeks
    [] text = PNoWeeks -> DocNoWeeks
    [] text = POneA -> DocOneA
    [] text = PTwo -> DocTwo
    [] OTHER -> DocEmpty

\* What the generator may answer (message.content.strip()).
GenPayloads == {PEmpty, PGarbage, PNoWeeks, POneA, PTwo}

\* The payloads given to the parsers; FenceOf[t] is t wrapped in a fence.
FenceOf == [t \in {POneA} |-> PFenced]
ParsePayloads ==
  {PGarbage, PNoWeeks, POneA, PTwo, PUnknown, PFenced, PTest, PNoType, PNoDetails,
   PStrengthLacks, PNoName, PMissingWeeks} \cup {PWODLacks[f] : f \in WODRequired}

\* ------------------------------------------------------------ cache files
\* A cache file: absent, text that json.load rejects (a truncated or foreign
\* file), or the envelope {"openai_response": data}; without the key, data
\* is None, which is also what .get returns for it.
Absent == [kind |-> "absent", data |-> None]
Garbled == [kind |-> "garbled", data |-> None]
Envelope(text) == [kind |-> "envelope", data |-> text]
NoKey == Envelope(None)
Files == {Absent, Garbled, NoKey} \cup {Envelope(t) : t \in GenPayloads \cup ParsePayloads}

\* A mutant of load_from_cache: the envelope is read under another key, so
\* .get returns None for every file.
load_from_cache_wrong_key(file) ==
  IF file.kind = "garbled" THEN [err |-> "JSONDecodeError", data |-> None]
  ELSE [err |-> "none", data |-> None]

\* load_from_cache: the value returned or the exception.
load_from_cache(file) ==
  IF file.kind = "absent" THEN [err |-> "none", data |-> None]
  ELSE IF file.kind = "garbled" THEN [err |-> "JSONDecodeError", data |-> None]
  ELSE [err |-> "none", data |-> file.data]

\* A mutant of Truthy: the test is `if cached_response is not None:`.
Truthy_not_none(text) == text # None

\* A mutant of Truthy: the cached response is never used.
Truthy_never(text) == FALSE

\* `if cached_response:` - None and the empty string are falsy.
Truthy(text) == text \notin {None, ""}

\* ------------------------------------------------------------------ state
Procs == {1, 2}
Variants == {"services", "api"}
Names == {"Sam"}
Durations == 0..MaxDuration
WeekIndices == 1..MaxDuration
\* time.time() when the process starts: any value at least
\* MIN_TIME_BETWEEN_REQUESTS after the epoch behaves alike.
StartTime == MIN_TIME_BETWEEN_REQUESTS

\* ------------------------------------------------------ similarity search
\* Entries the index may hold, and the largest top_k asked for.
MaxEntries == 2
MaxTopK == 3

\* get_workout_category: what the title and score_type of an entry make it.
Categories == {"warmup", "cooldown", "workout"}

\* list[idx] of Python: a negative idx counts from the end of the list.
PyItem(list, idx) ==
  IF idx >= 0 THEN list[idx + 1] ELSE list[Len(list) + idx + 1]
PyInRange(list, idx) == -Len(list) <= idx /\ idx < Len(list)

\* index.search(query_embedding, top_k)[1][0]: the ids (from 0) of the
\* nearest entries, nearest first, then -1 for every slot left unfilled.
Nearest(n, top_k) ==
  LET m == IF n < top_k THEN n ELSE top_k
  IN {o \in [1..m -> 0..(n - 1)] : \A i \in 1..m : \A j \in 1..m : i # j => o[i] # o[j]}
Padded(order, top_k) ==
  [i \in 1..top_k |-> IF i <= Len(order) THEN order[i] ELSE -1]

\* The list a hit is appended to.
ListOf(variant, category, include_warmups, include_cooldowns) ==
  IF category = "warmup" /\ include_warmups THEN "warmups"
  ELSE IF variant = "api" /\ category = "cooldown" /\ include_cooldowns THEN "cooldowns"
  ELSE IF variant = "services" /\ category = "quality" /\ include_cooldowns THEN "cooldowns"
  ELSE "results"

\* The hits of the loop over indices[0]: one per slot that passes the test
\* idx < len(workout_metadata), made from workout_metadata[idx].
Hits(metadata, indices) ==
  LET slots == SelectSeq([i \in 1..Len(indices) |-> i],
                         LAMBDA i : indices[i] < Len(metadata))
  IN [h \in 1..Len(slots) |->
       [rank |-> slots[h], idx |-> indices[slots[h]],
        workout |-> PyItem(metadata, indices[slots[h]])]]

NoSearch(metadata) ==
  [metadata |-> metadata, called |-> FALSE, indices |-> <<>>, err |-> "none",
   results |-> <<>>, warmups |-> <<>>, cooldowns |-> <<>>]

\* search_similar_workouts of services/search.py ("services") and of
\* api/workouts.py ("api"): the returned lists, or IndexError when
\* workout_metadata[idx] is out of range.
search_similar_workouts(variant, metadata, indices, include_warmups, include_cooldowns) ==
  LET passing == {i \in 1..Len(indices) : indices[i] < Len(metadata)}
      hits == Hits(metadata, indices)
      list(h) == ListOf(variant, h.workout.category, include_warmups, include_cooldowns)
  IN IF \E i \in passing : ~PyInRange(metadata, indices[i])
       THEN [NoSearch(metadata) EXCEPT !.called = TRUE, !.indices = indices,
                                       !.err = "IndexError"]
       ELSE [metadata |-> metadata, called |-> TRUE, indices |-> indices, err |-> "none",
             results |-> SelectSeq(hits, LAMBDA h : list(h) = "results"),
             warmups |-> SelectSeq(hits, LAMBDA h : list(h) = "warmups"),
             cooldowns |-> SelectSeq(hits, LAMBDA h : list(h) = "cooldowns")]

VARIABLES
  now,                \* time.time()
  last_request_time,  \* _last_request_time of openai_client.py ("services")
                      \* and of api/workouts.py ("api")
  cache,              \* workout_cache/week_N.json, by N
  build,              \* per process: the running generate_workout_with_ai call
  hist,               \* per process: what the running build has done so far
  sent,               \* the generator requests sent, in order
  prev,               \* the build that ended before the running one started
  started,            \* builds started so far
  search              \* the similarity index and the last search made in it

vars == <<now, last_request_time, cache, build, hist, sent, prev, started, search>>

NoResult == [kind |-> "none", plan |-> NoPlan, error |-> "none", stage |-> "none"]
Returned(plan) == [kind |-> "returned", plan |-> plan, error |-> "none", stage |-> "none"]
Raised(error, stage) == [kind |-> "raised", plan |-> NoPlan, error |-> error, stage |-> stage]

NoRequest == [name |-> "", duration |-> 0]
Idle ==
  [pc |-> "idle", variant |-> "services", request |-> NoRequest, week |-> 0,
   weeks |-> <<>>, previous_summary |-> <<>>, workout_text |-> None,
   wake |-> 0, result |-> NoResult]
NoHist == [log |-> <<>>, startCache |-> [k \in WeekIndices |-> Absent],
           endCache |-> [k \in WeekIndices |-> Absent]]
NoPrev == [variant |-> "none", request |-> NoRequest, result |-> NoResult,
           endCache |-> [k \in WeekIndices |-> Absent]]

Event(op, week) == [op |-> op, week |-> week]
Logged(p, events) == [hist EXCEPT ![p].log = @ \o events]

Running(p) == build[p].pc \notin {"idle", "done"}

\* f"{user_input.name}'s Plan"
PlanName(request) == <<request.name, "'s Plan">>

TypeOK ==
  /\ now \in Nat /\ now >= StartTime
  /\ \A v \in Variants : last_request_time[v] \in 0..now
  /\ \A k \in WeekIndices : cache[k] \in Files
  /\ \A p \in Procs : build[p].week \in 0..MaxDuration
  /\ started \in 0..MaxBuilds
  /\ search.called \in BOOLEAN /\ Len(search.metadata) <= MaxEntries

InitCommon ==
  /\ search = NoSearch(<<>>)
  /\ now = StartTime
  /\ last_request_time = [v \in Variants |-> 0]
  /\ build = [p \in Procs |-> Idle]
  /\ hist = [p \in Procs |-> NoHist]
  /\ sent = <<>>
  /\ prev = NoPrev
  /\ started = 0

\* The cache directory holds what earlier runs or other programs left: no
\* file, a foreign or truncated file, a payload.
InitFiles == {Absent, Garbled, Envelope(POneA)}
Init == InitCommon /\ cache \in [WeekIndices -> InitFiles]

\* A mutant of Appended: the loop is range(1, duration), one week short.
Appended_short(p, week_plan, events, c) ==
  LET b == build[p]
      ws == Append(b.weeks, week_plan)
      summary == summarize_week_for_next_prompt(b.variant, week_plan)
      last == b.week + 1 >= b.request.duration
  IN /\ build' = [build EXCEPT ![p] =
           IF last
             THEN [b EXCEPT !.weeks = ws, !.previous_summary = summary, !.pc = "done",
                            !.result = Returned([name |-> PlanName(b.request), weeks |-> ws])]
             ELSE [b EXCEPT !.weeks = ws, !.previous_summary = summary,
                            !.week = b.week + 1, !.pc = "lookup"]]
     /\ hist' = [hist EXCEPT ![p].log = @ \o events \o <<Event("append", b.week)>>,
                             ![p].endCache = IF last THEN c ELSE @]

\* A mutant of Appended: previous_summary is not reassigned in the loop.
Appended_keep_summary(p, week_plan, events, c) ==
  LET b == build[p]
      ws == Append(b.weeks, week_plan)
      last == b.week = b.request.duration
  IN /\ build' = [build EXCEPT ![p] =
           IF last
             THEN [b EXCEPT !.weeks = ws, !.pc = "done",
                            !.result = Returned([name |-> PlanName(b.request), weeks |-> ws])]
             ELSE [b EXCEPT !.weeks = ws, !.week = b.week + 1, !.pc = "lookup"]]
     /\ hist' = [hist EXCEPT ![p].log = @ \o events \o <<Event("append", b.week)>>,
                             ![p].endCache = IF last THEN c ELSE @]

\* A mutant of Raise: the loop catches the exception and goes on with the
\* next week.
Raise_continue(p, error, stage, events, c) ==
  LET b == build[p]
      last == b.week = b.request.duration
  IN /\ build' = [build EXCEPT ![p] =
           IF last
             THEN [b EXCEPT !.pc = "done",
                            !.result = Returned([name |-> PlanName(b.request), weeks |-> b.weeks])]
             ELSE [b EXCEPT !.week = b.week + 1, !.pc = "lookup"]]
     /\ hist' = [hist EXCEPT ![p].log = @ \o events,
                             ![p].endCache = IF last THEN c ELSE @]

\* -------------------------------------------------------------- the loop
\* The end of one iteration of generate_workout_with_ai, from the Week that
\* generate_weekly_workout returned: append, summarize, next week or return.
\* c is the cache as this step leaves it.
Appended(p, week_plan, events, c) ==
  LET b == build[p]
      ws == Append(b.weeks, week_plan)
      summary == summarize_week_for_next_prompt(b.variant, week_plan)
      last == b.week = b.request.duration
  IN /\ build' = [build EXCEPT ![p] =
           IF last
             THEN [b EXCEPT !.weeks = ws, !.previous_summary = summary, !.pc = "done",
                            !.result = Returned([name |-> PlanName(b.request), weeks |-> ws])]
             ELSE [b EXCEPT !.weeks = ws, !.previous_summary = summary,
                            !.week = b.week + 1, !.pc = "lookup"]]
     /\ hist' = [hist EXCEPT ![p].log = @ \o events \o <<Event("append", b.week)>>,
                             ![p].endCache = IF last THEN c ELSE @]

\* An exception leaves generate_workout_with_ai.
Raise(p, error, stage, events, c) ==
  /\ build' = [build EXCEPT ![p].pc = "done", ![p].result = Raised(error, stage)]
  /\ hist' = [hist EXCEPT ![p].log = @ \o events, ![p].endCache = c]

\* generate_workout_with_ai is called (a new request, or the same again).
Start(p, variant, request) ==
  /\ ~Running(p)
  /\ started < MaxBuilds
  /\ started' = started + 1
  /\ prev' = IF build[p].pc = "done"
               THEN [variant |-> build[p].variant, request |-> build[p].request,
                     result |-> build[p].result, endCache |-> hist[p].endCache]
               ELSE prev
  /\ sent' = IF \E q \in Procs : Running(q) THEN sent ELSE <<>>
  /\ hist' = [hist EXCEPT ![p] = [NoHist EXCEPT !.startCache = cache, !.endCache = cache]]
  /\ build' = [build EXCEPT ![p] =
       IF request.duration = 0
         THEN [Idle EXCEPT !.pc = "done", !.variant = variant, !.request = request,
                           !.result = Returned([name |-> PlanName(request), weeks |-> <<>>])]
         ELSE [Idle EXCEPT !.pc = "lookup", !.variant = variant, !.request = request,
                           !.week = 1]]
  /\ UNCHANGED <<now, last_request_time, cache, search>>

\* services, on a miss: build_prompt of core/prompt_builder.py, which first
\* calls search_similar_workouts; an exception of the search propagates.
Compose(p, search_ok, events) ==
  LET b == build[p]
      ev == events \o <<Event("compose", b.week)>>
  IN IF search_ok
       THEN /\ build' = [build EXCEPT ![p].pc = "throttle"]
            /\ hist' = Logged(p, ev)
       ELSE Raise(p, "SearchError", "compose", ev, cache)

\* The cached payload is parsed.  services: any exception propagates.  api:
\* `except ValueError` falls through to the generator, any other exception
\* propagates.
ParseCached(p, cached_response, events) ==
  LET b == build[p]
      r == first_week(b.variant, Doc(cached_response))
      ev == events \o <<Event("parse_cached", b.week)>>
  IN IF r.err = "none" THEN Appended(p, r.week, ev, cache)
     ELSE IF b.variant = "api" /\ r.err = "ValueError"
       THEN /\ build' = [build EXCEPT ![p].pc = "throttle"]
            /\ hist' = Logged(p, ev)
     ELSE Raise(p, r.err, "parse_cached", ev, cache)

\* generate_weekly_workout up to the throttle: load_from_cache, the test
\* `if cached_response:`, the parse of a hit, and for services the prompt.
Lookup(p, search_ok) ==
  LET b == build[p]
      r == load_from_cache(cache[b.week])
      ev == <<Event("lookup", b.week)>>
  IN /\ b.pc = "lookup"
     /\ IF r.err # "none" THEN search_ok /\ Raise(p, r.err, "lookup", ev, cache)
        ELSE IF Truthy(r.data) THEN search_ok /\ ParseCached(p, r.data, ev)
        ELSE IF b.variant = "services" THEN Compose(p, search_ok, ev)
        ELSE /\ search_ok
             /\ build' = [build EXCEPT ![p].pc = "throttle"]
             /\ hist' = Logged(p, ev)
     /\ UNCHANGED <<now, last_request_time, cache, sent, prev, started, search>>

\* The request leaves for the generator (client.chat.completions.create).
\* api composes its prompt between the throttle and the request.
Send(p, t) ==
  LET b == build[p]
      ev == IF b.variant = "api" THEN <<Event("compose", b.week), Event("send", b.week)>>
            ELSE <<Event("send", b.week)>>
  IN /\ build' = [build EXCEPT ![p].pc = "inflight"]
     /\ hist' = Logged(p, ev)
     /\ sent' = Append(sent, [proc |-> p, variant |-> b.variant, week |-> b.week, time |-> t])

\* A mutant of SleepFor: the throttle never sleeps.
SleepFor_none(time_since_last_request) == 0

\* How long the throttle sleeps, from time_since_last_request.
SleepFor(time_since_last_request) ==
  IF time_since_last_request < MIN_TIME_BETWEEN_REQUESTS
    THEN MIN_TIME_BETWEEN_REQUESTS - time_since_last_request
    ELSE 0

\* call_openai_api / generate_weekly_workout of api: the throttle reads the
\* clock and the shared timestamp; it sleeps, or the request is sent at once.
Throttle(p) ==
  LET b == build[p]
      time_since_last_request == now - last_request_time[b.variant]
      d == SleepFor(time_since_last_request)
  IN /\ b.pc = "throttle"
     /\ IF d > 0
          THEN /\ build' = [build EXCEPT ![p].pc = "sleep", ![p].wake = now + d]
               /\ UNCHANGED <<hist, sent>>
          ELSE Send(p, now)
     /\ UNCHANGED <<now, last_request_time, cache, prev, started, search>>

Max(a, b) == IF a > b THEN a ELSE b

\* time.sleep returns once the requested time has passed; the request is sent.
Wake(p) ==
  LET b == build[p] IN
  /\ b.pc = "sleep"
  /\ now' = Max(now, b.wake)
  /\ Send(p, now')
  /\ UNCHANGED <<last_request_time, cache, prev, started, search>>

\* The generator answers: the timestamp is updated, the text is stripped.
Respond(p, text) ==
  LET b == build[p] IN
  /\ b.pc = "inflight"
  /\ last_request_time' = [last_request_time EXCEPT ![b.variant] = now]
  /\ build' = [build EXCEPT ![p].workout_text = text, ![p].pc = "save_open"]
  /\ hist' = Logged(p, <<Event("response", b.week)>>)
  /\ UNCHANGED <<now, cache, sent, prev, started, search>>

\* A mutant of GeneratorFails: the failed call leaves an empty payload in
\* the week's cache file.
GeneratorFails_saves(p) ==
  LET b == build[p] IN
  /\ b.pc = "inflight"
  /\ cache' = [cache EXCEPT ![b.week] = Envelope(PEmpty)]
  /\ Raise(p, IF b.variant = "services" THEN "OpenAIError" ELSE "HTTPException",
           "generate", <<Event("fail", b.week)>>, cache')
  /\ UNCHANGED <<now, last_request_time, sent, prev, started, search>>

\* A mutant of GeneratorFails: the timestamp is taken in a finally clause,
\* so a failed call updates it too.
GeneratorFails_stamps(p) ==
  LET b == build[p] IN
  /\ b.pc = "inflight"
  /\ last_request_time' = [last_request_time EXCEPT ![b.variant] = now]
  /\ Raise(p, IF b.variant = "services" THEN "OpenAIError" ELSE "HTTPException",
           "generate", <<Event("fail", b.week)>>, cache)
  /\ UNCHANGED <<now, cache, sent, prev, started, search>>

\* A mutant of GeneratorFails: the failed call is tried again.
GeneratorFails_retry(p) ==
  LET b == build[p] IN
  /\ b.pc = "inflight"
  /\ build' = [build EXCEPT ![p].pc = "throttle"]
  /\ hist' = Logged(p, <<Event("fail", b.week)>>)
  /\ UNCHANGED <<now, last_request_time, cache, sent, prev, started, search>>

\* The generator call raises openai.OpenAIError: services lets it propagate,
\* api turns it into HTTPException(500).
GeneratorFails(p) ==
  LET b == build[p] IN
  /\ b.pc = "inflight"
  /\ Raise(p, IF b.variant = "services" THEN "OpenAIError" ELSE "HTTPException",
           "generate", <<Event("fail", b.week)>>, cache)
  /\ UNCHANGED <<now, last_request_time, cache, sent, prev, started, search>>

\* save_to_cache: open(filename, "w") truncates the file ...
SaveOpen(p) ==
  LET b == build[p] IN
  /\ b.pc = "save_open"
  /\ cache' = [cache EXCEPT ![b.week] = Garbled]
  /\ build' = [build EXCEPT ![p].pc = "save_dump"]
  /\ UNCHANGED <<now, last_request_time, hist, sent, prev, started, search>>

\* parse_openai_response(workout_text).weeks[0] of each orchestrator, for every
\* payload the generator may answer.
FirstWeekOf ==
  [v \in Variants |-> [t \in GenPayloads \cup ParsePayloads |-> first_week(v, Doc(t))]]

\* The fresh payload is parsed.  services: any exception propagates.  api:
\* `except Exception` re-raises it as ValueError.
ParseFresh(p, c) ==
  LET b == build[p]
      r == FirstWeekOf[b.variant][b.workout_text]
      ev == <<Event("write", b.week), Event("parse", b.week)>>
  IN IF r.err = "none" THEN Appended(p, r.week, ev, c)
     ELSE Raise(p, IF b.variant = "api" THEN "ValueError" ELSE r.err, "parse", ev, c)

\* A mutant of SaveDump: the payload is not kept, the file is removed.
SaveDump_lost(p) ==
  LET b == build[p] IN
  /\ b.pc = "save_dump"
  /\ cache' = [cache EXCEPT ![b.week] = Absent]
  /\ ParseFresh(p, cache')
  /\ UNCHANGED <<now, last_request_time, sent, prev, started, search>>

\* A mutant of SaveDump: the payload is parsed first and written only when
\* it parses.
SaveDump_parse_first(p) ==
  LET b == build[p] IN
  /\ b.pc = "save_dump"
  /\ cache' = IF first_week(b.variant, Doc(b.workout_text)).err = "none"
                THEN [cache EXCEPT ![b.week] = Envelope(b.workout_text)]
                ELSE cache
  /\ ParseFresh(p, cache')
  /\ UNCHANGED <<now, last_request_time, sent, prev, started, search>>

\* ... and json.dump writes the envelope; the file is closed.  The rest of
\* generate_weekly_workout touches no shared state: the payload is parsed.
SaveDump(p) ==
  LET b == build[p] IN
  /\ b.pc = "save_dump"
  /\ cache' = [cache EXCEPT ![b.week] = Envelope(b.workout_text)]
  /\ ParseFresh(p, cache')
  /\ UNCHANGED <<now, last_request_time, sent, prev, started, search>>

\* Time passes.  Only the throttle and the timestamp update read the clock,
\* so the clock is advanced where a process is about to read it.
Tick ==
  /\ \E p \in Procs : build[p].pc \in {"throttle", "sleep", "inflight"}
  /\ now + Quantum <= MaxTime
  /\ now' = now + Quantum
  /\ UNCHANGED <<last_request_time, cache, build, hist, sent, prev, started, search>>

Requests == [name : Names, duration : Durations]

\* The steps of a running build of process p, with a generator that answers
\* with one of `texts`.
Work(p, texts) ==
  \/ \E search_ok \in BOOLEAN : Lookup(p, search_ok)
  \/ Throttle(p)
  \/ Wake(p)
  \/ \E t \in texts : Respond(p, t)
  \/ GeneratorFails(p)
  \/ SaveOpen(p)
  \/ SaveDump(p)

\* The steps of process p, for the requests of `requests` to the
\* orchestrators of `variants`.
StepOf(p, variants, texts, requests) ==
  \/ \E v \in variants, r \in requests : Start(p, v, r)
  \/ Work(p, texts)

Step(p, variants, texts) == StepOf(p, variants, texts, Requests)

\* One request at a time: builds run one after the other.
Next == Step(1, Variants, GenPayloads)

Spec == Init /\ [][Next]_vars

\* One request at a time, with the clock free to advance while a caller waits.
InitTimed == InitCommon /\ cache \in [WeekIndices -> {Absent, Envelope(POneA)}]
NextTimed == Step(1, Variants, {POneA, PGarbage}) \/ Tick
SpecTimed == InitTimed /\ [][NextTimed]_vars

\* Requests served concurrently: FastAPI runs a `def` endpoint in a thread
\* pool, so two /generate requests run generate_workout_with_ai in parallel.
InitConc == InitCommon /\ cache = [k \in WeekIndices |-> Absent]
NextConc == (\E p \in Procs : Step(p, {"api"}, {POneA, PGarbage})) \/ Tick
SpecConc == InitConc /\ [][NextConc]_vars

\* Two callers, one after the other: the build of the first stays in view
\* while the second runs.  The cache directory starts empty.
InitSeq == InitCommon /\ cache = [k \in WeekIndices |-> Absent]
Alone(p) == \A q \in Procs \ {p} : ~Running(q)
StartAlone(p, variants, requests) ==
  \E v \in variants, r \in requests : Alone(p) /\ Start(p, v, r)
NextSeq ==
  \E p \in Procs :
    \/ StartAlone(p, {"services"}, Requests)
    \/ Work(p, {POneA, PTwo})
SpecSeq == InitSeq /\ [][NextSeq]_vars

\* Two callers, one after the other, asking for plans for two users.
TwoNames == {"Sam", "Kim"}
NextShared ==
  \E p \in Procs :
    \/ StartAlone(p, {"services"}, [name : TwoNames, duration : Durations])
    \/ Work(p, {POneA})
SpecShared == InitSeq /\ [][NextShared]_vars

\* The parsers on every kind of payload: the entry of week 1 holds any of
\* the payloads when the first build starts.
InitParse ==
  /\ InitCommon
  /\ \E t \in ParsePayloads :
       cache = [k \in WeekIndices |-> IF k = 1 THEN Envelope(t) ELSE Absent]
NextParse == Step(1, Variants, {POneA})
SpecParse == InitParse /\ [][NextParse]_vars

\* The search endpoint: GET /search_similar_workouts is served from the
\* index and the metadata loaded at import.
Search(variant, top_k, include_warmups, include_cooldowns) ==
  /\ \E order \in Nearest(Len(search.metadata), top_k) :
       search' = search_similar_workouts(variant, search.metadata, Padded(order, top_k),
                                         include_warmups, include_cooldowns)
  /\ UNCHANGED <<now, last_request_time, cache, build, hist, sent, prev, started>>

\* The index holds at least one entry, and one metadata entry per vector.
Metadata ==
  UNION {[1..n -> [id : 1..MaxEntries, category : Categories]] : n \in 1..MaxEntries}
InitSearch ==
  /\ now = StartTime
  /\ last_request_time = [v \in Variants |-> 0]
  /\ build = [p \in Procs |-> Idle]
  /\ hist = [p \in Procs |-> NoHist]
  /\ sent = <<>>
  /\ prev = NoPrev
  /\ started = 0
  /\ cache = [k \in WeekIndices |-> Absent]
  /\ \E metadata \in Metadata :
       /\ \A i \in 1..Len(metadata) : metadata[i].id = i
       /\ search = NoSearch(metadata)
NextSearch ==
  \E variant \in Variants, top_k \in 1..MaxTopK, include_warmups \in BOOLEAN,
     include_cooldowns \in BOOLEAN :
    Search(variant, top_k, include_warmups, include_cooldowns)
SpecSearch == InitSearch /\ [][NextSearch]_vars

\* Cache files that hold no payload: the directory holds, for each week, no
\* file, an envelope with an empty payload, or an envelope without the key.
FalsyFiles == {Absent, Envelope(PEmpty), NoKey}
InitFalsy == InitCommon /\ cache \in [WeekIndices -> FalsyFiles]
NextFalsy == Step(1, Variants, {POneA, PGarbage})
SpecFalsy == InitFalsy /\ [][NextFalsy]_vars

\* The two orchestrators on the same inputs: callers one after the other,
\* each of either orchestrator; the directory holds for each week no file or
\* a payload that follows the prompt's schema, and the generator answers
\* with such payloads.
InitBoth == InitCommon /\ cache \in [WeekIndices -> {Absent, Envelope(PTwo)}]
NextBoth ==
  \E p \in Procs :
    \/ StartAlone(p, Variants, Requests)
    \/ Work(p, {POneA, PTwo})
SpecBoth == InitBoth /\ [][NextBoth]_vars

\* A single build from an empty cache with the clock free to advance, and the assumption
\* under which termination is claimed: a step of the running build that can
\* be taken is taken, so each generator call returns or raises, time.sleep
\* returns, and the interpreter goes on to the next statement.
LiveTexts == {POneA, PGarbage}
StartFirst(p, variants, requests) ==
  \E v \in variants, r \in requests : started = 0 /\ Start(p, v, r)
NextLive ==
  \/ StartFirst(1, Variants, Requests)
  \/ Work(1, LiveTexts)
  \/ Tick
Fairness == WF_vars(Work(1, LiveTexts))
SpecLive == InitSeq /\ [][NextLive]_vars /\ Fairness

\* ------------------------------------------------------------- properties
Log(p) == hist[p].log
Done(p) == build[p].pc = "done"
Services(p) == build[p].pc # "idle" /\ build[p].variant = "services"
Api(p) == build[p].pc # "idle" /\ build[p].variant = "api"
ReturnedPlan(p) == Done(p) /\ build[p].result.kind = "returned"
RaisedAt(p, stage) ==
  Done(p) /\ build[p].result.kind = "raised" /\ build[p].result.stage = stage
\* The week indices of the build's events of one kind, in order.
WeeksOf(p, op) ==
  LET es == SelectSeq(Log(p), LAMBDA e : e.op = op) IN [i \in 1..Len(es) |-> es[i].week]
HasEvent(p, op, k) == \E i \in 1..Len(Log(p)) : Log(p)[i] = Event(op, k)
EmptyCache == [k \in WeekIndices |-> Absent]

\* The Week the services parser builds from the first week of each payload
\* that lists at least one week.
HeldWeek ==
  [t \in {u \in GenPayloads : Len(Weeks(Doc(u).obj)) >= 1} |-> CoreWeeks(Doc(t).obj)[1]]

\* C1: a plan returned by generate_workout_with_ai of services for a request
\* of duration D >= 1 holds exactly D weeks, and its i-th week is the first
\* week of the payload held for week i (found in the cache or generated and
\* saved), parsed, however many weeks that payload lists.
C1_PlanHoldsDurationWeeks ==
  \A p \in Procs :
    (Services(p) /\ ReturnedPlan(p) /\ build[p].request.duration >= 1) =>
      LET plan == build[p].result.plan IN
      /\ Len(plan.weeks) = build[p].request.duration
      /\ \A i \in 1..Len(plan.weeks) :
           LET file == hist[p].endCache[i] IN
           /\ file.kind = "envelope"
           /\ file.data \in DOMAIN HeldWeek
           /\ plan.weeks[i] = HeldWeek[file.data]

\* C1 witness: a two-week plan returned by services, one week from a cache
\* hit and one from the generator, the generated payload listing two weeks.
C1_Witness ==
  \E p \in Procs :
    /\ Services(p) /\ ReturnedPlan(p)
    /\ build[p].request.duration = 2
    /\ WeeksOf(p, "parse_cached") = <<1>>
    /\ WeeksOf(p, "send") = <<2>>
    /\ hist[p].endCache[2] = Envelope(PTwo)

\* The exception each failing stage of services raises.
StageError(p) ==
  LET b == build[p]
      k == b.week
  IN CASE b.result.stage = "lookup" ->
            IF hist[p].startCache[k].kind = "garbled" THEN {"JSONDecodeError"} ELSE {}
       [] b.result.stage = "compose" -> {"SearchError"}
       [] b.result.stage = "generate" -> {"OpenAIError"}
       [] b.result.stage = "parse_cached" ->
            IF Doc(hist[p].startCache[k].data).form = "garbage" THEN {"ValueError"}
            ELSE IF Weeks(Doc(hist[p].startCache[k].data).obj) = <<>> THEN {"IndexError"}
            ELSE {}
       [] b.result.stage = "parse" ->
            IF Doc(b.workout_text).form \in {"garbage", "empty"} THEN {"ValueError"}
            ELSE IF Weeks(Doc(b.workout_text).obj) = <<>> THEN {"IndexError"}
            ELSE {}
       [] OTHER -> {}

\* C2: when the step of week k fails in services, generate_workout_with_ai
\* raises that failure and returns no plan; the failing event is the build's
\* last, no event (lookup, generator call, cache write) concerns a week after
\* k, and the cache entries after k are as the build found them.  A failed
\* generator call always ends the build this way.
C2_FirstFailureEndsBuild ==
  \A p \in Procs :
    /\ (Services(p) /\ Done(p) /\ build[p].result.kind = "raised") =>
         LET k == build[p].week IN
         /\ build[p].result.plan = NoPlan
         /\ build[p].result.error \in StageError(p)
         /\ Len(build[p].weeks) = k - 1
         /\ \A i \in 1..Len(Log(p)) : Log(p)[i].week <= k
         /\ Log(p)[Len(Log(p))].week = k
         /\ \A j \in WeekIndices : j > k => cache[j] = hist[p].startCache[j]
    /\ Services(p) =>
         \A i \in 1..Len(Log(p)) :
           Log(p)[i].op = "fail" =>
             /\ i = Len(Log(p))
             /\ build[p].result = Raised("OpenAIError", "generate")

\* C2 witness: a services build of two weeks that failed at week 1 because
\* the generator call failed.
C2_Witness ==
  \E p \in Procs :
    /\ Services(p) /\ RaisedAt(p, "generate")
    /\ build[p].week = 1
    /\ build[p].request.duration = 2

\* C3: a services build that follows a successful services build of the same
\* request, and starts from the cache that build left, returns the same plan
\* and sends no request to the generator.
C3_WarmCacheIdempotent ==
  \A p \in Procs :
    (/\ Services(p) /\ Done(p)
     /\ prev.variant = "services"
     /\ prev.result.kind = "returned"
     /\ prev.request = build[p].request
     /\ hist[p].startCache = prev.endCache) =>
      /\ build[p].result = prev.result
      /\ WeeksOf(p, "send") = <<>>
      /\ hist[p].endCache = prev.endCache

\* C3 witness: the second of two successful two-week services builds, the
\* first of which generated week 2.
C3_Witness ==
  \E p \in Procs :
    /\ Services(p) /\ ReturnedPlan(p)
    /\ prev.variant = "services" /\ prev.result.kind = "returned"
    /\ prev.request = build[p].request
    /\ build[p].request.duration = 2
    /\ hist[p].startCache[2] = Envelope(PTwo)

\* C4: a build that succeeds from an empty cache directory has sent exactly
\* one generator request per week, for the weeks 1..duration in that order.
C4_ColdBuildCallsOncePerWeek ==
  \A p \in Procs :
    (ReturnedPlan(p) /\ hist[p].startCache = EmptyCache) =>
      WeeksOf(p, "send") = [i \in 1..build[p].request.duration |-> i]

\* C4 witness: a successful two-week services build from an empty cache.
C4_Witness ==
  \E p \in Procs :
    /\ Services(p) /\ ReturnedPlan(p)
    /\ hist[p].startCache = EmptyCache
    /\ build[p].request.duration = 2

\* C5: within one build, each generator request after the first is sent at
\* least MIN_TIME_BETWEEN_REQUESTS after the one before it; a caller that
\* finds the interval not elapsed sleeps until it has, and does not fail.
C5_SequentialCallsSpaced ==
  /\ \A i \in 1..Len(sent) : \A j \in 1..Len(sent) :
       i < j => sent[j].time - sent[i].time >= MIN_TIME_BETWEEN_REQUESTS
  /\ \A p \in Procs :
       build[p].pc = "sleep" =>
         /\ build[p].wake = last_request_time[build[p].variant] + MIN_TIME_BETWEEN_REQUESTS
         /\ build[p].result = NoResult

\* C5 witness: the second request of a services build was sent when its
\* sleep for the remainder of the interval ended.
C5_Witness ==
  \E p \in Procs :
    /\ Services(p)
    /\ Len(sent) = 2
    /\ build[p].wake = sent[2].time
    /\ sent[2].time - sent[1].time > MIN_TIME_BETWEEN_REQUESTS

\* C6: no two generator requests that share a throttle (the same module's
\* _last_request_time) are sent less than MIN_TIME_BETWEEN_REQUESTS apart,
\* also when builds run concurrently.
C6_ConcurrentCallsSpaced ==
  \A i \in 1..Len(sent) : \A j \in 1..Len(sent) :
    (i < j /\ sent[i].variant = sent[j].variant) =>
      sent[j].time - sent[i].time >= MIN_TIME_BETWEEN_REQUESTS

\* C7: in services, a cached payload that fails to parse does not end the
\* build: no build ends with the exception of the parse of a cached payload.
C7_ServicesRecoversCorruptCache ==
  \A p \in Procs : Services(p) => ~RaisedAt(p, "parse_cached")

\* C8: in api, a week-2 cache file that is not valid JSON does not fail the
\* build at week 2: the generator is asked for week 2, and the build ends
\* with a plan unless that regeneration fails.
C8_ApiRecoversInvalidCacheFile ==
  \A p \in Procs :
    (/\ Api(p) /\ Done(p)
     /\ build[p].request.duration >= 2
     /\ build[p].week = 2
     /\ hist[p].startCache[2] = Garbled) =>
      /\ HasEvent(p, "send", 2)
      /\ \/ /\ build[p].result.kind = "returned"
            /\ HasEvent(p, "write", 2)
            /\ Len(build[p].result.plan.weeks) >= 2
         \/ build[p].result.stage \in {"generate", "parse"}

\* The lookup of a week finds a usable entry: an envelope whose payload is
\* not empty and parses to a plan of at least one week.
UsableTexts ==
  [v \in Variants |->
    {t \in GenPayloads \ {""} :
       /\ parse_openai_response(v, Doc(t)).err = "none"
       /\ Weeks(Doc(t).obj) # <<>>}]
Usable(variant, file) == file.kind = "envelope" /\ file.data \in UsableTexts[variant]

\* C9: the first event of every week of a build is its cache lookup; the
\* generator is called for a week only if the lookup found no usable entry,
\* and after a usable entry nothing but its parse and the append happens for
\* that week (no prompt, no generator request, no cache write).
C9_LookupFirstAndHitsStayLocal ==
  \A p \in Procs :
    \A i \in 1..Len(Log(p)) :
      LET e == Log(p)[i]
          found == hist[p].startCache[e.week]
      IN /\ (i = 1 \/ Log(p)[i - 1].week # e.week) => e.op = "lookup"
         /\ e.op \in {"send", "response", "fail"} => ~Usable(build[p].variant, found)
         /\ Usable(build[p].variant, found) =>
              /\ e.op \in {"lookup", "parse_cached", "append"}
              /\ cache[e.week] = found

\* C9 witness: a two-week services build that found a usable entry for week
\* 2 after generating week 1.
C9_Witness ==
  \E p \in Procs :
    /\ Services(p) /\ ReturnedPlan(p)
    /\ Usable("services", hist[p].startCache[2])
    /\ WeeksOf(p, "send") = <<1>>
    /\ WeeksOf(p, "parse_cached") = <<2>>

\* C10: every payload the generator returns is written to the week's cache
\* entry before it is parsed: a write is the next event after each response,
\* and a build that fails in the parse of a fresh payload leaves the week's
\* entry holding exactly that payload.
C10_RawPayloadSavedBeforeParse ==
  \A p \in Procs :
    /\ \A i \in 1..Len(Log(p)) :
         /\ (Log(p)[i].op = "response" /\ i < Len(Log(p))) =>
              Log(p)[i + 1] = Event("write", Log(p)[i].week)
         /\ Log(p)[i].op = "parse" => (i > 1 /\ Log(p)[i - 1] = Event("write", Log(p)[i].week))
    /\ RaisedAt(p, "parse") =>
         /\ build[p].workout_text \in GenPayloads
         /\ cache[build[p].week] = Envelope(build[p].workout_text)

\* C10 witness: a services build that failed in the parse of the payload
\* generated for week 2, which the cache entry of week 2 holds.
C10_Witness ==
  \E p \in Procs :
    /\ Services(p) /\ RaisedAt(p, "parse")
    /\ build[p].week = 2
    /\ cache[2] = Envelope(PGarbage)

\* C11: cache writes are atomic: a write in progress is never observed.  The
\* cache directory starts empty in SpecConc, so every file there is one a
\* build wrote; the claim is that no lookup ends in the exception json.load
\* raises on a partially written file.
C11_CacheWritesAtomic ==
  \A p \in Procs : ~RaisedAt(p, "lookup")

\* C12: builds for different requests share no cache entry: a build that
\* returned a plan parsed no week from an entry that a build for another
\* request wrote.  (The cache directory starts empty in SpecShared.)
C12_BuildsDoNotShareEntries ==
  \A p \in Procs : \A q \in Procs \ {p} :
    (/\ ReturnedPlan(p)
     /\ build[q].pc # "idle"
     /\ build[q].request # build[p].request) =>
      \A k \in WeekIndices :
        ~(HasEvent(q, "write", k) /\ HasEvent(p, "parse_cached", k))

\* The payloads that load as JSON and list a session whose type is none of
\* the four recognized kinds.
UnknownTexts ==
  {t \in ParsePayloads :
     /\ JsonLoads(Doc(t))
     /\ \E i \in 1..Len(AllSessions(Doc(t).obj)) :
          Get(AllSessions(Doc(t).obj)[i], "type", JNull) \notin session_classes}

\* C13: the parser of core/response_parser.py fails with ValueError on every
\* payload that lists a session of an unrecognized type, and a Week it
\* returns has, day by day, as many sessions as the payload lists.  (The
\* parser is applied to the payload the entry of week 1 holds.)
C13_CoreParserStrict ==
  \A p \in Procs :
    (Services(p) /\ HasEvent(p, "parse_cached", 1)) =>
      LET t == hist[p].startCache[1].data
          listed == Days(Weeks(Doc(t).obj)[1])
      IN /\ t \in UnknownTexts =>
              /\ build[p].result = Raised("ValueError", "parse_cached")
              /\ build[p].weeks = <<>>
         /\ Len(build[p].weeks) >= 1 =>
              /\ Len(build[p].weeks[1].days) = Len(listed)
              /\ \A j \in 1..Len(listed) :
                   Len(build[p].weeks[1].days[j].sessions) = Len(Sessions(listed[j]))

\* C13 witness: services parsed the cached payload with a session of type
\* "Unknown" and the build ended with the parser's ValueError.
C13_Witness ==
  \E p \in Procs :
    /\ Services(p) /\ RaisedAt(p, "parse_cached")
    /\ hist[p].startCache[1] = Envelope(PUnknown)
    /\ build[p].result.error = "ValueError"

\* C14: resumability.  A services build q that started from an empty cache
\* failed at week k because the generator call failed; a build p of the same
\* request that starts from the cache q left sends generator requests only
\* for weeks from k on (for k..duration exactly when it returns a plan), and
\* its weeks before k are the weeks q parsed.
C14_ResumesAtFailedWeek ==
  \A p \in Procs : \A q \in Procs \ {p} :
    (/\ Services(q) /\ RaisedAt(q, "generate")
     /\ hist[q].startCache = EmptyCache
     /\ Services(p) /\ Done(p)
     /\ build[p].request = build[q].request
     /\ hist[p].startCache = hist[q].endCache) =>
      LET k == build[q].week
          D == build[p].request.duration
      IN /\ \A i \in 1..Len(WeeksOf(p, "send")) : WeeksOf(p, "send")[i] >= k
         /\ ReturnedPlan(p) => WeeksOf(p, "send") = [i \in 1..(D - k + 1) |-> k + i - 1]
         /\ Len(build[p].weeks) >= k - 1
         /\ \A i \in 1..(k - 1) : build[p].weeks[i] = build[q].weeks[i]

\* C14 witness: q failed at the generator call of week 2 of 2; p, the same
\* request on the cache q left, returned a plan after one request, for week 2.
C14_Witness ==
  \E p \in Procs : \E q \in Procs \ {p} :
    /\ Services(q) /\ RaisedAt(q, "generate")
    /\ build[q].week = 2
    /\ hist[q].startCache = EmptyCache
    /\ Services(p) /\ ReturnedPlan(p)
    /\ build[p].request = build[q].request
    /\ hist[p].startCache = hist[q].endCache
    /\ WeeksOf(p, "send") = <<2>>

\* C15: summary chaining.  Whenever a build has composed the directive of
\* its current week w, the summary it passed to build_prompt (its variable
\* previous_summary) is empty for w = 1 and otherwise the summary of the
\* week it appended for w - 1, from the cache or from the generator.
C15_SummaryChained ==
  \A p \in Procs :
    (Running(p) /\ HasEvent(p, "compose", build[p].week)) =>
      LET w == build[p].week IN
      /\ Len(build[p].weeks) = w - 1
      /\ build[p].previous_summary =
           IF w = 1 THEN <<>>
           ELSE summarize_week_for_next_prompt(build[p].variant, build[p].weeks[w - 1])

\* C15 witness: services has composed the directive of week 2 after taking
\* week 1 from the cache, with a summary that is not empty.
C15_Witness ==
  \E p \in Procs :
    /\ Services(p) /\ build[p].pc = "throttle"
    /\ build[p].week = 2
    /\ HasEvent(p, "parse_cached", 1)
    /\ HasEvent(p, "compose", 2)
    /\ build[p].previous_summary # <<>>

\* C16: within one build the weeks are processed in ascending order without
\* overlap: the events start at week 1, the week of an event changes only
\* from w to w + 1, and then the event before is the append of week w (which
\* ends the step that parsed and summarized it) and the event after is the
\* lookup of w + 1; a running build has appended exactly the weeks before its
\* current one; and a request sent is answered (or fails) before the build
\* does anything else, so at most one request is in flight.
C16_WeeksInOrderNoOverlap ==
  \A p \in Procs :
    /\ Log(p) # <<>> => Log(p)[1].week = 1
    /\ \A i \in 2..Len(Log(p)) :
         \/ Log(p)[i].week = Log(p)[i - 1].week
         \/ /\ Log(p)[i].week = Log(p)[i - 1].week + 1
            /\ Log(p)[i - 1].op = "append"
            /\ Log(p)[i].op = "lookup"
    /\ Running(p) => Len(build[p].weeks) = build[p].week - 1
    /\ \A i \in 1..Len(Log(p)) :
         Log(p)[i].op = "send" =>
           IF i = Len(Log(p)) THEN build[p].pc = "inflight"
           ELSE Log(p)[i + 1] \in {Event("response", Log(p)[i].week),
                                   Event("fail", Log(p)[i].week)}
    /\ build[p].pc = "inflight" => Log(p)[Len(Log(p))] = Event("send", build[p].week)

\* C16 witness: the request of week 2 is in flight, after week 1 was
\* generated, parsed and appended.
C16_Witness ==
  \E p \in Procs :
    /\ build[p].pc = "inflight"
    /\ build[p].week = 2
    /\ WeeksOf(p, "send") = <<1, 2>>
    /\ WeeksOf(p, "append") = <<1>>

\* C17: no automatic retry.  A build sends at most one generator request per
\* week index (the weeks of its requests are strictly ascending), and a
\* failed generator call is the last thing the build does: it ends with the
\* upstream error (OpenAIError from services; api wraps it in HTTPException).
C17_NoAutomaticRetry ==
  \A p \in Procs :
    /\ \A i \in 1..Len(WeeksOf(p, "send")) : \A j \in 1..Len(WeeksOf(p, "send")) :
         i < j => WeeksOf(p, "send")[i] < WeeksOf(p, "send")[j]
    /\ \A i \in 1..Len(Log(p)) :
         Log(p)[i].op = "fail" =>
           /\ i = Len(Log(p))
           /\ Done(p)
           /\ build[p].week = Log(p)[i].week
           /\ build[p].result =
                Raised(IF build[p].variant = "services" THEN "OpenAIError" ELSE "HTTPException",
                       "generate")

\* C17 witness: a services build whose second generator call, for week 2,
\* failed: two requests were sent, and the build ended with OpenAIError.
C17_Witness ==
  \E p \in Procs :
    /\ Services(p) /\ RaisedAt(p, "generate")
    /\ build[p].result.error = "OpenAIError"
    /\ WeeksOf(p, "send") = <<1, 2>>
    /\ HasEvent(p, "fail", 2)

\* C18: a failure of the similarity search inside build_prompt does not
\* abort the composition: no services build ends with the exception of the
\* search.
C18_SearchFailureDoesNotAbort ==
  \A p \in Procs : Services(p) => ~RaisedAt(p, "compose")

\* A build aborted by an upstream error or by a malformed payload.
Aborted(p) ==
  Done(p) /\ build[p].result.kind = "raised"
          /\ build[p].result.stage \in {"generate", "parse", "parse_cached"}

\* C19: the error that aborts a build identifies the week that failed: two
\* builds that end with the same error failed at the same week.  (The result
\* of a build is all its caller receives; the exceptions raised carry a fixed
\* text and the text of the exception they wrap, nothing of the loop.)
C19_ErrorIdentifiesWeek ==
  \A p \in Procs : \A q \in Procs \ {p} :
    (Aborted(p) /\ Aborted(q) /\ build[p].result = build[q].result) =>
      build[p].week = build[q].week

\* C20: code-fence tolerance of the parser of core/response_parser.py: when
\* a payload t parses, t wrapped in a markdown code fence parses as well, to
\* the same plan.  (The parser is applied to the fenced payload that the
\* entry of week 1 holds; the build takes the first week of the plan.)
C20_CoreParserFenceTolerant ==
  \A p \in Procs : \A t \in DOMAIN FenceOf :
    (/\ Services(p) /\ HasEvent(p, "parse_cached", 1)
     /\ hist[p].startCache[1] = Envelope(FenceOf[t])
     /\ parse_openai_response("services", Doc(t)).err = "none") =>
      /\ ~RaisedAt(p, "parse_cached")
      /\ Len(build[p].weeks) >= 1
      /\ build[p].weeks[1] = parse_openai_response("services", Doc(t)).plan.weeks[1]

\* The weeks of a plan have the shape of the weeks a payload lists: as many
\* weeks, days per week and sessions per day, and session by session the type
\* the payload names.
SameShape(weeks, listed) ==
  /\ Len(weeks) = Len(listed)
  /\ \A i \in 1..Len(listed) :
       /\ Len(weeks[i].days) = Len(Days(listed[i]))
       /\ \A j \in 1..Len(Days(listed[i])) :
            LET built == weeks[i].days[j].sessions
                given == Sessions(Days(listed[i])[j])
            IN /\ Len(built) = Len(given)
               /\ \A k \in 1..Len(given) : built[k].type = given[k]["type"]

\* The payloads the parser of core/response_parser.py accepts, and those of
\* them whose plan has the shape of the payload.
CoreAccepted == {t \in ParsePayloads : parse_openai_response_core(Doc(t)).err = "none"}
CoreShapeKept ==
  {t \in CoreAccepted :
     SameShape(parse_openai_response_core(Doc(t)).plan.weeks, Weeks(Doc(t).obj))}

\* C21: order preservation.  For every payload the parser of
\* core/response_parser.py accepts, the plan has as many weeks, days per week
\* and sessions per day as the payload, in the payload's order, and the j-th
\* session of a day has the type of the j-th session object; in particular
\* the Week a services build takes from the cached payload of week 1 has the
\* shape of the first week that payload lists.
C21_OrderPreserved ==
  /\ CoreShapeKept = CoreAccepted
  /\ \A p \in Procs :
       (Services(p) /\ HasEvent(p, "parse_cached", 1) /\ Len(build[p].weeks) >= 1) =>
         LET t == hist[p].startCache[1].data IN
         /\ t \in CoreAccepted
         /\ SameShape(<<build[p].weeks[1]>>, <<Weeks(Doc(t).obj)[1]>>)

\* C21 witness: services took the first week of the cached two-week payload:
\* two days, a Rest Day, then an Active Recovery followed by a WOD.
C21_Witness ==
  \E p \in Procs :
    /\ Services(p) /\ HasEvent(p, "parse_cached", 1)
    /\ hist[p].startCache[1] = Envelope(PTwo)
    /\ Len(build[p].weeks) >= 1
    /\ Len(build[p].weeks[1].days) = 2
    /\ build[p].weeks[1].days[2].sessions[1].type = "Active Recovery"
    /\ build[p].weeks[1].days[2].sessions[2].type = "WOD"

\* C22: the parser of api/workouts.py succeeds on the payload of
\* tests/test_workouts.py, whose Strength session has reps "1+2": once an api
\* build has parsed that payload, cached for week 1, it holds the payload's
\* week with its sessions in order, each with details of the class its type
\* names, and the Strength details carry the payload's sets and reps.
C22_ApiParsesTestPayload ==
  \A p \in Procs :
    (/\ Api(p) /\ HasEvent(p, "parse_cached", 1)
     /\ hist[p].startCache[1] = Envelope(PTest)) =>
      /\ ~HasEvent(p, "compose", 1)
      /\ Len(build[p].weeks) >= 1
      /\ SameShape(<<build[p].weeks[1]>>, Weeks(DocTest.obj))
      /\ \A j \in 1..Len(build[p].weeks[1].days) :
           \A k \in 1..Len(build[p].weeks[1].days[j].sessions) :
             build[p].weeks[1].days[j].sessions[k].cls =
               build[p].weeks[1].days[j].sessions[k].type
      /\ build[p].weeks[1].days[1].sessions[2].details.sets = SessStrengthReps.details.sets
      /\ build[p].weeks[1].days[1].sessions[2].details.reps = SessStrengthReps.details.reps

\* A session object that lacks its type, its details, or a field its class
\* declares without a default.
StrengthRequired == {"description"}
LacksRequired(s) ==
  \/ ~Has(s, "type")
  \/ ~Has(s, "details")
  \/ /\ s["type"] = "WOD"
     /\ \E f \in WODRequired : ~Has(s["details"], f)
  \/ /\ s["type"] = "Strength"
     /\ \E f \in StrengthRequired : ~Has(s["details"], f)
LackingTexts ==
  {t \in ParsePayloads :
     /\ JsonLoads(Doc(t))
     /\ \E i \in 1..Len(AllSessions(Doc(t).obj)) : LacksRequired(AllSessions(Doc(t).obj)[i])}

\* C23: required fields get no defaults.  The parser of
\* core/response_parser.py, applied by services to the cached payload of week
\* 1, fails with its ValueError when a session of the payload lacks its type,
\* its details, or a required field of its details; and in a Week it returns
\* every required field of a WOD or Strength session holds the payload's
\* value.
C23_RequiredFieldsNotDefaulted ==
  \A p \in Procs :
    (Services(p) /\ HasEvent(p, "parse_cached", 1)) =>
      LET t == hist[p].startCache[1].data IN
      /\ t \in LackingTexts =>
           /\ build[p].result = Raised("ValueError", "parse_cached")
           /\ build[p].weeks = <<>>
      /\ Len(build[p].weeks) >= 1 =>
           \A j \in 1..Len(build[p].weeks[1].days) :
             \A k \in 1..Len(build[p].weeks[1].days[j].sessions) :
               LET built == build[p].weeks[1].days[j].sessions[k]
                   given == Sessions(Days(Weeks(Doc(t).obj)[1])[j])[k]
                   required == CASE built.type = "WOD" -> WODRequired \ {"movements"}
                                 [] built.type = "Strength" -> StrengthRequired
                                 [] OTHER -> {}
               IN /\ ~LacksRequired(given)
                  /\ \A f \in required : built.details[f] = given["details"][f]

\* C23 witness: services parsed a cached payload whose second session is a
\* WOD without movements, and the build ended with the parser's ValueError.
C23_Witness ==
  \E p \in Procs :
    /\ Services(p) /\ RaisedAt(p, "parse_cached")
    /\ hist[p].startCache[1] = Envelope(PWODLacks["movements"])
    /\ build[p].result.error = "ValueError"

\* The payloads that are a JSON object without a top-level name.
NamelessTexts ==
  {t \in ParsePayloads : JsonLoads(Doc(t)) /\ Doc(t).form = "object" /\ ~Has(Doc(t).obj, "name")}

\* C24: the parser of core/response_parser.py fails with its ValueError on
\* every payload that is a JSON object without a top-level name, also when
\* the weeks, days and sessions it lists are all valid: a services build that
\* parsed such a payload, cached for week 1, ended with that error and took
\* no week from it.
C24_NameRequired ==
  \A p \in Procs :
    (/\ Services(p) /\ HasEvent(p, "parse_cached", 1)
     /\ hist[p].startCache[1].data \in NamelessTexts) =>
      /\ build[p].result = Raised("ValueError", "parse_cached")
      /\ build[p].weeks = <<>>

\* C24 witness: services parsed the cached payload that lists the week of
\* payload oneA, every session valid, but no name; the build ended with the
\* parser's ValueError.
C24_Witness ==
  \E p \in Procs :
    /\ Services(p) /\ RaisedAt(p, "parse_cached")
    /\ hist[p].startCache[1] = Envelope(PNoName)
    /\ PNoName \in NamelessTexts
    /\ \A i \in 1..Len(AllSessions(DocNoName.obj)) : SessionValid(AllSessions(DocNoName.obj)[i])
    /\ build[p].result.error = "ValueError"

\* A Rest Day session object without notes, or an Active Recovery session
\* object without activities, whose details hold nothing but strings for
\* fields of type str.
DefaultedSession(s) ==
  /\ Has(s, "type") /\ Has(s, "details")
  /\ \/ s["type"] = "Rest Day" /\ DOMAIN s["details"] \subseteq {"description"}
     \/ s["type"] = "Active Recovery"
          /\ DOMAIN s["details"] \subseteq {"description", "duration", "intensity"}
  /\ \A f \in DOMAIN s["details"] : s["details"][f] \notin NumTokens \cup {JNull}
\* The payloads with a name whose sessions are such sessions (at least one)
\* and complete WOD and Strength sessions.
DefaultingTexts ==
  {t \in ParsePayloads :
     /\ JsonLoads(Doc(t)) /\ Has(Doc(t).obj, "name") /\ Weeks(Doc(t).obj) # <<>>
     /\ \A i \in 1..Len(AllSessions(Doc(t).obj)) :
          \/ AllSessions(Doc(t).obj)[i] \in {SessWOD, SessStrength, SessWODMurph}
          \/ DefaultedSession(AllSessions(Doc(t).obj)[i])
     /\ \E i \in 1..Len(AllSessions(Doc(t).obj)) : DefaultedSession(AllSessions(Doc(t).obj)[i])}

\* C25: default application.  A payload whose Rest Day sessions have no
\* notes and whose Active Recovery sessions have no activities parses (parser
\* of core/response_parser.py, applied by services to the cached payload of
\* week 1): the RestDay details carry the default notes string "Take the day
\* off to recover." and the ActiveRecoveryDay details the default activity
\* list.
C25_DefaultsApplied ==
  \A p \in Procs :
    (/\ Services(p) /\ HasEvent(p, "parse_cached", 1)
     /\ hist[p].startCache[1].data \in DefaultingTexts) =>
      LET t == hist[p].startCache[1].data IN
      /\ ~RaisedAt(p, "parse_cached")
      /\ Len(build[p].weeks) >= 1
      /\ SameShape(<<build[p].weeks[1]>>, <<Weeks(Doc(t).obj)[1]>>)
      /\ \A j \in 1..Len(build[p].weeks[1].days) :
           \A k \in 1..Len(build[p].weeks[1].days[j].sessions) :
             LET built == build[p].weeks[1].days[j].sessions[k] IN
             /\ built.type = "Rest Day" =>
                  /\ built.cls = "Rest Day"
                  /\ built.details.notes = "Take the day off to recover."
             /\ built.type = "Active Recovery" =>
                  /\ built.cls = "Active Recovery"
                  /\ built.details.activities =
                       <<"Mobility work", "Light cardio", "Foam rolling">>

\* C25 witness: services took from the cached two-week payload a week whose
\* first day is a Rest Day given without notes and whose second day starts
\* with an Active Recovery session given without activities.
C25_Witness ==
  \E p \in Procs :
    /\ Services(p) /\ HasEvent(p, "parse_cached", 1)
    /\ hist[p].startCache[1] = Envelope(PTwo)
    /\ PTwo \in DefaultingTexts
    /\ ~Has(SessRest.details, "notes") /\ ~Has(SessRecovery.details, "activities")
    /\ Len(build[p].weeks) >= 1
    /\ build[p].weeks[1].days[1].sessions[1].details.notes = RestDayDefaultText
    /\ build[p].weeks[1].days[2].sessions[1].details.activities = DefaultActivities

\* The types of the sessions of a day that are of a recognized kind, in order.
RecognizedTypes(day) ==
  LET types == [k \in 1..Len(day.sessions) |-> day.sessions[k].type]
  IN SelectSeq(types, LAMBDA type : type \in session_classes)
\* The Week a build summarized last, once it has appended one.
LastWeek(p) == build[p].weeks[Len(build[p].weeks)]

\* C26: summarize_week_for_next_prompt (core/summary_genertor.py) is a
\* function of the Week alone: the summary a services build holds is made of
\* one segment per day of the week it appended last, labelled 1..n in day
\* order, each with one fragment per session of a recognized kind, in session
\* order; and two builds whose last weeks are equal hold equal summaries.
C26_SummaryIsFunctionOfWeek ==
  /\ \A p \in Procs :
       (Services(p) /\ Len(build[p].weeks) >= 1) =>
         LET summary == build[p].previous_summary
             week == LastWeek(p)
         IN /\ Len(summary) = Len(week.days)
            /\ \A i \in 1..Len(week.days) :
                 /\ summary[i].label = i
                 /\ [k \in 1..Len(summary[i].fragments) |-> summary[i].fragments[k].kind]
                      = RecognizedTypes(week.days[i])
  /\ \A p \in Procs : \A q \in Procs \ {p} :
       (/\ Services(p) /\ Len(build[p].weeks) >= 1
        /\ Services(q) /\ Len(build[q].weeks) >= 1
        /\ LastWeek(p) = LastWeek(q)) =>
         build[p].previous_summary = build[q].previous_summary

\* C26 witness: two services builds summarized the same two-day week, one
\* after generating it and one after finding it in the cache; the summary
\* has two segments, the second with two fragments.
C26_Witness ==
  \E p \in Procs : \E q \in Procs \ {p} :
    /\ Services(p) /\ Services(q)
    /\ Len(build[p].weeks) = 1 /\ Len(build[q].weeks) = 1
    /\ HasEvent(p, "send", 1) /\ HasEvent(q, "parse_cached", 1)
    /\ LastWeek(p) = LastWeek(q)
    /\ Len(build[q].previous_summary) = 2
    /\ Len(build[q].previous_summary[2].fragments) = 2

\* C27: no eviction.  No step removes a cache file, so the set of week
\* indices that have one never shrinks; and the content of the file of week k
\* changes only in save_to_cache, called by a build for the payload it has
\* just received from the generator for week k (the response is the build's
\* last event): the file is truncated, then holds that payload.
C27_NoEviction ==
  [][\A k \in WeekIndices :
       /\ cache[k].kind # "absent" => cache'[k].kind # "absent"
       /\ cache'[k] # cache[k] =>
            \E p \in Procs :
              /\ build[p].pc \in {"save_open", "save_dump"}
              /\ build[p].week = k
              /\ Log(p) # <<>>
              /\ Log(p)[Len(Log(p))] = Event("response", k)
              /\ cache'[k] \in {Garbled, Envelope(build[p].workout_text)}]_vars

\* C27 witness: an api build found a payload in the file of week 1, asked
\* the generator for week 1 and overwrote the file with the new payload.
C27_Witness ==
  \E p \in Procs :
    /\ Api(p) /\ HasEvent(p, "write", 1)
    /\ hist[p].startCache[1].kind = "envelope"
    /\ cache[1].kind = "envelope"
    /\ cache[1] # hist[p].startCache[1]

AllHits == search.results \o search.warmups \o search.cooldowns

\* C29: search_similar_workouts returns at most as many hits, over all its
\* lists, as the index has entries: a slot the index left unfilled (-1)
\* yields no hit, every hit reports the metadata entry its slot matched, and
\* the search raises nothing.
C29_SearchHitsBounded ==
  search.called =>
    /\ search.err = "none"
    /\ Len(AllHits) <= Len(search.metadata)
    /\ \A h \in 1..Len(AllHits) :
         /\ search.indices[AllHits[h].rank] # -1
         /\ AllHits[h].workout.id = search.indices[AllHits[h].rank] + 1

\* The payloads from which the api orchestrator obtains no Week:
\* parse_openai_response(text).weeks[0] raises.
ApiNoWeekTexts == {t \in ParsePayloads : first_week("api", Doc(t)).err # "none"}

\* C30: in generate_weekly_workout of api/workouts.py a cached payload from
\* which no Week can be obtained (also valid JSON with a name whose weeks are
\* empty or missing) leads to regeneration, not to a failed build: the build
\* does not end with the exception of the cached parse, and when it ends it
\* has asked the generator for that week, a successful build having
\* overwritten the entry.
C30_ApiRegeneratesUnusableCache ==
  \A p \in Procs :
    (/\ Api(p) /\ HasEvent(p, "parse_cached", 1)
     /\ hist[p].startCache[1].data \in ApiNoWeekTexts) =>
      /\ ~RaisedAt(p, "parse_cached")
      /\ Done(p) => HasEvent(p, "send", 1)
      /\ ReturnedPlan(p) =>
           /\ HasEvent(p, "write", 1)
           /\ cache[1] # hist[p].startCache[1]

\* The payloads with a name and at least one week, all of whose sessions
\* are complete session objects of a type of the prompt's schema.
SchemaTexts ==
  {t \in ParsePayloads :
     /\ JsonLoads(Doc(t)) /\ Has(Doc(t).obj, "name") /\ Weeks(Doc(t).obj) # <<>>
     /\ \A i \in 1..Len(AllSessions(Doc(t).obj)) :
          LET session == AllSessions(Doc(t).obj)[i] IN
          /\ session \in {SessWOD, SessStrength, SessWODMurph, SessRest, SessRecovery}
          /\ session["type"] \in SchemaTypes}

\* C31: the parser of api/workouts.py agrees with the schema of its prompt:
\* from a payload whose sessions all carry a type string of the schema (WOD,
\* Strength, Rest Day, Active Recovery) it produces one Session of that kind
\* per session object, so the Week an api build takes from such a payload,
\* cached for week 1, has day by day the sessions the payload lists.
C31_ApiParserMatchesSchema ==
  \A p \in Procs :
    (/\ Api(p) /\ HasEvent(p, "parse_cached", 1)
     /\ hist[p].startCache[1].data \in SchemaTexts) =>
      /\ ~HasEvent(p, "compose", 1)
      /\ Len(build[p].weeks) >= 1
      /\ SameShape(<<build[p].weeks[1]>>, <<Weeks(Doc(hist[p].startCache[1].data).obj)[1]>>)

\* C32: in services every failure to turn a payload, cached or fresh, into
\* a Week reaches the caller as the parser's ValueError, also for a payload
\* that is valid JSON with a name and an empty weeks list.
C32_ServicesParseErrorKind ==
  \A p \in Procs :
    (Services(p) /\ (RaisedAt(p, "parse_cached") \/ RaisedAt(p, "parse"))) =>
      build[p].result.error = "ValueError"

\* C33: a failed generator call for week N leaves the cache unchanged: the
\* build has not written the file of week N and the file is as the build
\* found it; every cache write of a build comes straight after the response
\* of the generator for the same week, and a file differs from what the
\* build found only if the build received a response for that week.
C33_FailedCallLeavesCache ==
  \A p \in Procs :
    build[p].pc # "idle" =>
      /\ \A k \in WeekIndices :
           /\ HasEvent(p, "fail", k) =>
                /\ ~HasEvent(p, "write", k)
                /\ cache[k] = hist[p].startCache[k]
           /\ cache[k] # hist[p].startCache[k] => HasEvent(p, "response", k)
      /\ \A i \in 1..Len(Log(p)) :
           Log(p)[i].op = "write" =>
             (i > 1 /\ Log(p)[i - 1] = Event("response", Log(p)[i].week))

\* C33 witness: an api build found an unparsable payload in the file of week
\* 1, asked the generator, and the call failed: the file still holds the
\* payload found.
C33_Witness ==
  \E p \in Procs :
    /\ Api(p) /\ RaisedAt(p, "generate")
    /\ HasEvent(p, "fail", 1)
    /\ hist[p].startCache[1] = Envelope(PGarbage)
    /\ cache[1] = Envelope(PGarbage)

\* C34: a generator call that fails leaves _last_request_time unchanged.
\* The timestamp of a module changes only in the step in which a call of
\* that module returns, to the time of the return; the step in which a call
\* fails changes no timestamp; and a caller that has to wait sleeps until
\* MIN_TIME_BETWEEN_REQUESTS after the timestamp, that is after the last
\* call that returned.
C34_FailedCallLeavesTimestamp ==
  [][/\ \A v \in Variants :
          last_request_time'[v] # last_request_time[v] =>
            \E p \in Procs :
              /\ build[p].pc = "inflight" /\ build[p].variant = v
              /\ build'[p].pc = "save_open"
              /\ last_request_time'[v] = now
     /\ \A p \in Procs :
          /\ (build[p].pc = "inflight" /\ build'[p].pc = "done") =>
               last_request_time' = last_request_time
          /\ (build[p].pc = "throttle" /\ build'[p].pc = "sleep") =>
               build'[p].wake = last_request_time[build[p].variant] + MIN_TIME_BETWEEN_REQUESTS
    ]_vars

\* C34 witness: the call for week 2 failed; the timestamp is still the time
\* at which the call for week 1 returned, before the failed request was sent.
C34_Witness ==
  \E p \in Procs :
    /\ RaisedAt(p, "generate")
    /\ WeeksOf(p, "send") = <<1, 2>>
    /\ HasEvent(p, "fail", 2)
    /\ Len(sent) = 2
    /\ last_request_time[build[p].variant] >= sent[1].time
    /\ last_request_time[build[p].variant] < sent[2].time

\* The cache directory as a build sees it: as it is while the build runs, as
\* the build left it once it has ended.
CacheOf(p) == IF Done(p) THEN hist[p].endCache ELSE cache
\* The week indices that have a cache file.
Entries(c) == {k \in WeekIndices : c[k].kind # "absent"}

\* C35: prefix invariant.  At every point of a build that started from an
\* empty cache directory, with no other build running, the week indices that
\* have a cache file are exactly 1..m for some m <= duration, and m is at
\* least the number of weeks the build has appended.
C35_CachePrefix ==
  \A p \in Procs :
    (build[p].pc # "idle" /\ hist[p].startCache = EmptyCache) =>
      \E m \in 0..build[p].request.duration :
        /\ Entries(CacheOf(p)) = 1..m
        /\ m >= Len(build[p].weeks)

\* C35 witness: a two-week build from an empty directory is writing the
\* file of week 2: the files of weeks 1 and 2 exist, one week is appended.
C35_Witness ==
  \E p \in Procs :
    /\ Services(p) /\ build[p].pc = "save_dump"
    /\ hist[p].startCache = EmptyCache
    /\ build[p].request.duration = 2
    /\ Entries(cache) = {1, 2}
    /\ Len(build[p].weeks) = 1

\* Every week of the build's request is a parsable cache hit: the file the
\* build found for it holds a payload that parses to at least one week.
EveryWeekHit(p) ==
  /\ build[p].request.duration >= 1
  /\ \A k \in 1..build[p].request.duration : Usable(build[p].variant, hist[p].startCache[k])

\* C36: a build in which every week is a parsable cache hit changes no
\* shared state.  No step of such a build changes a cache file, the
\* timestamp or the clock or sends a request; the build never enters the
\* throttle; its events are lookups, parses of cached payloads and appends
\* only (no prompt is composed, so the similarity search is not called); and
\* it ends by returning a plan.
C36_AllHitBuildChangesNothing ==
  [][\A p \in Procs :
       (Running(p) /\ EveryWeekHit(p)) =>
         /\ cache' = cache
         /\ last_request_time' = last_request_time
         /\ now' = now
         /\ sent' = sent
         /\ build'[p].pc \in {"lookup", "done"}
         /\ \A i \in 1..Len(hist'[p].log) :
              hist'[p].log[i].op \in {"lookup", "parse_cached", "append"}
         /\ build'[p].pc = "done" =>
              /\ build'[p].result.kind = "returned"
              /\ hist'[p].endCache = hist[p].startCache]_vars

\* C36 witness: a two-week services build, after an earlier build that
\* called the generator, took both weeks from the cache and returned.
C36_Witness ==
  \E p \in Procs :
    /\ Services(p) /\ ReturnedPlan(p) /\ EveryWeekHit(p)
    /\ build[p].request.duration = 2
    /\ WeeksOf(p, "parse_cached") = <<1, 2>>
    /\ last_request_time["services"] > 0
    /\ cache = hist[p].startCache

\* C37: a cache file whose payload is the empty string, or whose envelope
\* lacks the openai_response key, is treated like an absent file.  For a
\* week whose file the build found in one of these three conditions the
\* cached payload is never parsed, the lookup is followed by the composition
\* of the prompt (unless the search inside it fails, the request is sent),
\* and once the week's payload is written the file holds it; a build that
\* returned a plan has called the generator for the week and overwritten
\* the file with a payload.
C37_FalsyEntryIsAbsent ==
  \A p \in Procs : \A k \in WeekIndices :
    (build[p].pc # "idle" /\ hist[p].startCache[k] \in FalsyFiles) =>
      /\ ~HasEvent(p, "parse_cached", k)
      /\ \A i \in 1..Len(Log(p)) :
           Log(p)[i] = Event("lookup", k) =>
             IF i = Len(Log(p)) THEN Api(p) /\ build[p].pc \in {"throttle", "sleep"}
             ELSE Log(p)[i + 1] = Event("compose", k)
      /\ (HasEvent(p, "write", k) /\ build[p].week = k) =>
           cache[k] = Envelope(build[p].workout_text)
      /\ (ReturnedPlan(p) /\ k <= build[p].request.duration) =>
           /\ HasEvent(p, "send", k) /\ HasEvent(p, "write", k)
           /\ cache[k].kind = "envelope"
           /\ Truthy(cache[k].data)

\* C37 witness: a two-week services build found an empty payload in the
\* file of week 1 and an envelope without the key in the file of week 2; it
\* called the generator for both weeks and both files hold the new payload.
C37_Witness ==
  \E p \in Procs :
    /\ Services(p) /\ ReturnedPlan(p)
    /\ hist[p].startCache = <<Envelope(PEmpty), NoKey>>
    /\ WeeksOf(p, "send") = <<1, 2>>
    /\ cache = <<Envelope(POneA), Envelope(POneA)>>

\* A build on the fault-free path: every file it found holds a payload that
\* both parsers turn into a Week, no generator call failed and the search
\* did not fail.
FaultFree(p) ==
  /\ \A k \in WeekIndices :
       \/ hist[p].startCache[k] = Absent
       \/ \A v \in Variants : Usable(v, hist[p].startCache[k])
  /\ \A i \in 1..Len(Log(p)) : Log(p)[i].op # "fail"
  /\ ~RaisedAt(p, "compose")

\* C38: the two orchestrators are equivalent on the fault-free path: a
\* services build and an api build of the same request that started from the
\* same cache state, both fault-free, sent generator requests for the same
\* weeks in the same order, wrote the same cache files, left the same cache
\* and returned plans with the same weeks.
C38_OrchestratorsEquivalent ==
  \A p \in Procs : \A q \in Procs \ {p} :
    (/\ Services(p) /\ Done(p) /\ FaultFree(p)
     /\ Api(q) /\ Done(q) /\ FaultFree(q)
     /\ build[p].request = build[q].request
     /\ hist[p].startCache = hist[q].startCache) =>
      /\ WeeksOf(p, "send") = WeeksOf(q, "send")
      /\ WeeksOf(p, "write") = WeeksOf(q, "write")
      /\ hist[p].endCache = hist[q].endCache
      /\ build[p].result.kind = build[q].result.kind
      /\ build[p].result.plan.weeks = build[q].result.plan.weeks

\* The number of the build's events of one kind.
Count(p, op) == Len(WeeksOf(p, op))

\* C39: every build terminates: provided each generator call returns or
\* raises, a running build eventually returns a Plan or raises; it makes at
\* most `duration` loop iterations, hence at most `duration` generator calls,
\* and a throttle wait lasts at most MIN_TIME_BETWEEN_REQUESTS.
C39_EveryBuildTerminates ==
  /\ [](\A p \in Procs :
          /\ build[p].pc # "idle" =>
                /\ Count(p, "lookup") <= build[p].request.duration
                /\ Count(p, "send") <= build[p].request.duration
                /\ Count(p, "send") <= Count(p, "lookup")
          /\ build[p].pc = "sleep" =>
                build[p].wake - now <= MIN_TIME_BETWEEN_REQUESTS)
  /\ \A p \in Procs : Running(p) ~> Done(p)

\* A build of two weeks returned its plan after two generator calls, the
\* second sent exactly MIN_TIME_BETWEEN_REQUESTS after the first answer:
\* the throttle slept and woke.
C39_Witness ==
  \E p \in Procs :
    /\ ReturnedPlan(p)
    /\ build[p].request.duration = 2
    /\ Count(p, "lookup") = 2
    /\ WeeksOf(p, "send") = <<1, 2>>
    /\ Len(sent) = 2
    /\ sent[2].time = sent[1].time + MIN_TIME_BETWEEN_REQUESTS
====
